---- MODULE Spec2Model ----
(***************************************************************************)
(* Model of the LINE image webhook of app.py: callback() verifies the      *)
(* signature and dispatches one image event to handle_image_message(),     *)
(* which checks saved_messages.json, downloads the image, extracts text,   *)
(* converts it to a table, appends it to the spreadsheet, replies to the   *)
(* user and records the message id.                                        *)
(*                                                                         *)
(* A text is a sequence of one-character strings.  Each request handler    *)
(* is a thread of the server; pc[t] is its position in the code.  The      *)
(* collaborators (media endpoint, Gemini, Sheets, reply API, the write of  *)
(* the ledger file) answer nondeterministically: they succeed or raise.    *)
(* Reads of an existing saved_messages.json succeed.                       *)
(***************************************************************************)
EXTENDS Integers, Sequences, FiniteSets, TLC

\* ---------------------------------------------------------------- bounds
MaxRequests == 3
Threads == {1, 2}
MessageIds == {"m1", "m2"}
MaxTextLen == 4
MaxConcurrentRequests == 2

\* ------------------------------------------------------------- constants
HTTP_OK == 200
HTTP_BAD_REQUEST == 400
HTTP_SERVER_ERROR == 500

\* Statuses the media endpoint answers with: success and one non-success.
StatusCodes == {HTTP_OK, 404}
Signatures == {"missing", "invalid", "valid"}

SUCCESS_TEXT == "saved to spreadsheet"
EXTRACTION_FAILED_TEXT == "text extraction failed"
ERROR_TEXT == "error while processing"

TAB == "\t"
NL == "\n"
Whitespace == {" ", TAB, NL, "\r"}

\* The characters of the texts given to convert_to_table.
Alphabet == {"a", "b", " ", ",", TAB, NL, "\r"}

\* Every text of at most n characters.
Texts(n) == UNION {[1..k -> Alphabet] : k \in 0..n}

\* Texts the extraction model may answer with: "a,b\n\n c\tD " and " ".
ExtractedTexts ==
    { <<"a", ",", "b", NL, NL, " ", "c", TAB, "D", " ">>,
      <<" ">> }

VARIABLES
    saved_messages_file,  \* saved_messages.json: [exists, data]
    sheet,                \* the spreadsheet: the sequence of appended value lists
    requests,             \* number of webhook requests received so far
    pc,                   \* per thread: position in callback / handler
    message_id,           \* per thread: event.message.id
    status_code,          \* per thread: response.status_code (0: no response)
    extracted_text,       \* per thread: [none, text], the result of extraction
    values,               \* per thread: the rows passed to append_to_sheet
    saved_messages,       \* per thread: the list loaded inside save_message_id
    trace,                \* per thread: calls of this event in order: fetch,
                          \*   extract, append, reply, write (of the ledger file)
    replies,              \* per thread: reply_message calls of this event
    status,               \* per thread: HTTP status of the response (0: none yet)
    entry,                \* per thread: the function the thread was started in
    signature,            \* per thread: the X-Line-Signature header of the request
    outcome,              \* per message id: how its last handled event ended
    parser,               \* a call of convert_to_table and a re-parse of one row
    script                \* the run of image_to_text.py

vars == <<saved_messages_file, sheet, requests, pc, message_id, status_code,
          extracted_text, values, saved_messages, trace, replies, status, entry,
          signature, outcome, parser, script>>


\* ---------------------------------------------------------------- helpers
Range(s) == {s[i] : i \in DOMAIN s}

IsSpace(c) == c \in Whitespace

RECURSIVE lstrip(_)
lstrip(s) ==
    IF s # <<>> /\ IsSpace(Head(s)) THEN lstrip(Tail(s)) ELSE s

RECURSIVE rstrip(_)
rstrip(s) ==
    IF s # <<>> /\ IsSpace(s[Len(s)]) THEN rstrip(SubSeq(s, 1, Len(s) - 1)) ELSE s

\* str.strip()
strip(s) == rstrip(lstrip(s))

\* str.split(sep) / re.split('[...]', s): n separators give n + 1 pieces.
RECURSIVE split(_, _)
split(s, seps) ==
    IF \E i \in 1..Len(s) : s[i] \in seps
    THEN LET i == CHOOSE k \in 1..Len(s) :
                      /\ s[k] \in seps
                      /\ \A j \in 1..(k - 1) : s[j] \notin seps
         IN  <<SubSeq(s, 1, i - 1)>> \o split(SubSeq(s, i + 1, Len(s)), seps)
    ELSE <<s>>

NonEmpty(x) == x # <<>>

\* Variant: the kept fields are not stripped.
convert_line_no_strip(line) ==
    LET row == split(line, {TAB, ","})
        kept(item) == strip(item) # <<>>
    IN  SelectSeq(row, kept)

\* Variant: the kept fields are stripped on the right only.
convert_line_rstrip_only(line) ==
    LET row == split(line, {TAB, ","})
        stripped == [i \in 1..Len(row) |-> rstrip(row[i])]
        kept(item) == strip(item) # <<>>
    IN  SelectSeq(stripped, kept)

\* One line of convert_to_table: split on tab or comma, strip, drop empties.
convert_line(line) ==
    LET row == split(line, {TAB, ","})
        stripped == [i \in 1..Len(row) |-> strip(row[i])]
    IN  SelectSeq(stripped, NonEmpty)

\* Variant: a line without fields is kept as an empty row.
convert_to_table_keep_empty_rows(text) ==
    LET lines == split(strip(text), {NL})
    IN  [i \in 1..Len(lines) |-> convert_line(lines[i])]

convert_to_table(text) ==
    LET lines == split(strip(text), {NL})
        rows == [i \in 1..Len(lines) |-> convert_line(lines[i])]
    IN  SelectSeq(rows, NonEmpty)

\* The first row of values: [current_time, "LINE Message ID: <id>"].
metadata_row(current_time, id) == <<current_time, <<"LINE Message ID: ", id>>>>

build_values(current_time, id, text) ==
    <<metadata_row(current_time, id)>> \o convert_to_table(text)

\* Variant: the test is made on the parsed rows, `if convert_to_table(...)`.
Truthy_has_rows(x) == ~x.none /\ convert_to_table(x.text) # <<>>

\* `if extracted_text:` -- None and "" are both false.
Truthy(x) == ~x.none /\ x.text # <<>>

None == [none |-> TRUE, text |-> <<>>]
Str(s) == [none |-> FALSE, text |-> s]

\* Variant: no os.path.exists test, open() raises on a missing file.
load_saved_messages_no_exists_test ==
    IF saved_messages_file.exists
    THEN [raised |-> FALSE, value |-> saved_messages_file.data]
    ELSE [raised |-> TRUE, value |-> <<>>]

\* load_saved_messages(): the list in the file, [] when the file is missing.
load_saved_messages ==
    IF saved_messages_file.exists
    THEN [raised |-> FALSE, value |-> saved_messages_file.data]
    ELSE [raised |-> FALSE, value |-> <<>>]

\* `message_id in saved_messages`
has(id) == id \in Range(load_saved_messages.value)

Call(op, ok) == [op |-> op, ok |-> ok]
Reply(text, ok) == [text |-> text, ok |-> ok]

\* No call of convert_to_table is under way; image_to_text.py is not run.
ParserIdle == [pc |-> "idle", text |-> <<>>, table |-> <<>>, row |-> <<>>,
               joined |-> <<>>, reparsed |-> <<>>]
ScriptIdle == [pc |-> "idle", raised |-> FALSE, extracted_text |-> <<>>,
               table |-> <<>>, values |-> <<>>, appended |-> FALSE]

\* ------------------------------------------------------------------- Init
InitServer ==
    /\ saved_messages_file \in {[exists |-> FALSE, data |-> <<>>],
                                [exists |-> TRUE, data |-> <<>>]}
    /\ sheet = <<>>
    /\ requests = 0
    /\ pc = [t \in Threads |-> "idle"]
    /\ message_id = [t \in Threads |-> "m1"]
    /\ status_code = [t \in Threads |-> 0]
    /\ extracted_text = [t \in Threads |-> None]
    /\ values = [t \in Threads |-> <<>>]
    /\ saved_messages = [t \in Threads |-> <<>>]
    /\ trace = [t \in Threads |-> <<>>]
    /\ replies = [t \in Threads |-> <<>>]
    /\ status = [t \in Threads |-> 0]
    /\ entry = [t \in Threads |-> "callback"]
    /\ signature = [t \in Threads |-> "none"]
    /\ outcome = [id \in MessageIds |-> "none"]

Init ==
    /\ InitServer
    /\ parser = ParserIdle
    /\ script = ScriptIdle

\* ---------------------------------------------------------------- actions
Idle(t) == pc[t] = "idle"

\* One request at a time: no handler is running.
Sequential == \A u \in Threads : Idle(u)

Goto(t, label) == pc' = [pc EXCEPT ![t] = label]

Log(t, op, ok) == trace' = [trace EXCEPT ![t] = Append(@, Call(op, ok))]

\* The thread starts a call with fresh local variables.
Enter(t, fn, id) ==
    /\ requests < MaxRequests
    /\ requests' = requests + 1
    /\ message_id' = [message_id EXCEPT ![t] = id]
    /\ status_code' = [status_code EXCEPT ![t] = 0]
    /\ extracted_text' = [extracted_text EXCEPT ![t] = None]
    /\ values' = [values EXCEPT ![t] = <<>>]
    /\ saved_messages' = [saved_messages EXCEPT ![t] = <<>>]
    /\ trace' = [trace EXCEPT ![t] = <<>>]
    /\ replies' = [replies EXCEPT ![t] = <<>>]
    /\ entry' = [entry EXCEPT ![t] = fn]

\* handle_image_message returns, callback answers 'OK'.
Return(t) ==
    /\ Goto(t, "done")
    /\ status' = [status EXCEPT ![t] = HTTP_OK]

\* An exception leaves the function the thread was started in: callback
\* aborts with 500; a direct call of save_message_id just ends.
Escape(t) ==
    /\ Goto(t, "done")
    /\ status' = [status EXCEPT ![t] =
                     IF entry[t] = "callback" THEN HTTP_SERVER_ERROR ELSE @]

\* Variant: a bad signature is caught by `except Exception` and gives 500.
callback_abort_500(t, sig, id) ==
    /\ Idle(t)
    /\ Enter(t, "callback", id)
    /\ signature' = [signature EXCEPT ![t] = sig]
    /\ IF sig = "valid"
       THEN /\ Goto(t, "check")
            /\ status' = [status EXCEPT ![t] = 0]
       ELSE /\ Goto(t, "done")
            /\ status' = [status EXCEPT ![t] = HTTP_SERVER_ERROR]
    /\ UNCHANGED <<saved_messages_file, sheet, outcome>>

\* callback(): the signature header is required and must verify; then the
\* image event of the body is dispatched to handle_image_message.
callback(t, sig, id) ==
    /\ Idle(t)
    /\ Enter(t, "callback", id)
    /\ signature' = [signature EXCEPT ![t] = sig]
    /\ IF sig = "valid"
       THEN /\ Goto(t, "check")
            /\ status' = [status EXCEPT ![t] = 0]
       ELSE /\ Goto(t, "done")
            /\ status' = [status EXCEPT ![t] = HTTP_BAD_REQUEST]
    /\ UNCHANGED <<saved_messages_file, sheet, outcome>>

\* Variant: the ledger is not consulted.
check_saved_no_dedupe(t) ==
    /\ pc[t] = "check"
    /\ Goto(t, "fetch")
    /\ UNCHANGED <<saved_messages_file, sheet, requests, message_id, status_code,
                   extracted_text, values, saved_messages, trace, replies, status,
                   entry,
                   signature, outcome>>

\* Lines 164-171: the dedupe check.
check_saved(t) ==
    /\ pc[t] = "check"
    /\ LET loaded == load_saved_messages
       IN  IF loaded.raised
           THEN Goto(t, "except") /\ UNCHANGED status
           ELSE IF message_id[t] \in Range(loaded.value)
                THEN Return(t)
                ELSE Goto(t, "fetch") /\ UNCHANGED status
    /\ UNCHANGED <<saved_messages_file, sheet, requests, message_id, status_code,
                   extracted_text, values, saved_messages, trace, replies, entry,
                   signature, outcome>>

\* Variant: the status of the response is not tested.
download_image_no_status_test(t) ==
    /\ pc[t] = "fetch"
    /\ \/ /\ Log(t, "fetch", FALSE)
          /\ UNCHANGED status_code
          /\ Goto(t, "except")
       \/ \E code \in StatusCodes :
             /\ Log(t, "fetch", code = HTTP_OK)
             /\ status_code' = [status_code EXCEPT ![t] = code]
             /\ Goto(t, "extract")
    /\ UNCHANGED <<saved_messages_file, sheet, requests, message_id,
                   extracted_text, values, saved_messages, replies, status, entry,
                   signature, outcome>>

\* Lines 180-182 and 234-236: requests.get raises, or answers with a status.
download_image(t) ==
    /\ pc[t] = "fetch"
    /\ \/ /\ Log(t, "fetch", FALSE)
          /\ UNCHANGED status_code
          /\ Goto(t, "except")
       \/ \E code \in StatusCodes :
             /\ Log(t, "fetch", code = HTTP_OK)
             /\ status_code' = [status_code EXCEPT ![t] = code]
             /\ IF code = HTTP_OK
                THEN Goto(t, "extract")
                ELSE Goto(t, "except")
    /\ UNCHANGED <<saved_messages_file, sheet, requests, message_id,
                   extracted_text, values, saved_messages, replies, status, entry,
                   signature, outcome>>

\* Lines 104-122 and 187-189: a failure inside extraction is caught and
\* gives None; otherwise the answer is the model's text, possibly "".
extract_text_from_image(t) ==
    /\ pc[t] = "extract"
    /\ \/ /\ Log(t, "extract", FALSE)
          /\ extracted_text' = [extracted_text EXCEPT ![t] = None]
          /\ Goto(t, "reply_failed")
       \/ \E text \in ExtractedTexts \cup {<<>>} :
             /\ Log(t, "extract", TRUE)
             /\ extracted_text' = [extracted_text EXCEPT ![t] = Str(text)]
             /\ IF Truthy(Str(text))
                THEN Goto(t, "append")
                ELSE Goto(t, "reply_failed")
    /\ UNCHANGED <<saved_messages_file, sheet, requests, message_id, status_code,
                   values, saved_messages, replies, status, entry,
                   signature, outcome>>

\* Variant: the rows are written over the sheet (update instead of append).
append_to_sheet_overwrite(t) ==
    /\ pc[t] = "append"
    /\ LET v == build_values(requests, message_id[t], extracted_text[t].text)
       IN  /\ values' = [values EXCEPT ![t] = v]
           /\ \/ /\ Log(t, "append", TRUE)
                 /\ sheet' = <<v>>
                 /\ Goto(t, "reply_success")
              \/ /\ Log(t, "append", FALSE)
                 /\ sheet' = sheet
                 /\ Goto(t, "except")
    /\ UNCHANGED <<saved_messages_file, requests, message_id, status_code,
                   extracted_text, saved_messages, replies, status, entry,
                   signature, outcome>>

\* Variant: a failed append is logged and not raised again.
append_to_sheet_no_raise(t) ==
    /\ pc[t] = "append"
    /\ LET v == build_values(requests, message_id[t], extracted_text[t].text)
       IN  /\ values' = [values EXCEPT ![t] = v]
           /\ \/ /\ Log(t, "append", TRUE)
                 /\ sheet' = Append(sheet, v)
                 /\ Goto(t, "reply_success")
              \/ /\ Log(t, "append", FALSE)
                 /\ sheet' = sheet
                 /\ Goto(t, "save_load")
    /\ UNCHANGED <<saved_messages_file, requests, message_id, status_code,
                   extracted_text, saved_messages, replies, status, entry,
                   signature, outcome>>

\* Variant: after the append the id is recorded at once, without the reply.
append_to_sheet_then_save(t) ==
    /\ pc[t] = "append"
    /\ LET v == build_values(requests, message_id[t], extracted_text[t].text)
       IN  /\ values' = [values EXCEPT ![t] = v]
           /\ \/ /\ Log(t, "append", TRUE)
                 /\ sheet' = Append(sheet, v)
                 /\ Goto(t, "save_load")
              \/ /\ Log(t, "append", FALSE)
                 /\ sheet' = sheet
                 /\ Goto(t, "except")
    /\ UNCHANGED <<saved_messages_file, requests, message_id, status_code,
                   extracted_text, saved_messages, replies, status, entry,
                   signature, outcome>>

\* Lines 191-205 and 217-219: build values and append them to the sheet.
append_to_sheet(t) ==
    /\ pc[t] = "append"
    /\ LET v == build_values(requests, message_id[t], extracted_text[t].text)
       IN  /\ values' = [values EXCEPT ![t] = v]
           /\ \/ /\ Log(t, "append", TRUE)
                 /\ sheet' = Append(sheet, v)
                 /\ Goto(t, "reply_success")
              \/ /\ Log(t, "append", FALSE)
                 /\ sheet' = sheet
                 /\ Goto(t, "except")
    /\ UNCHANGED <<saved_messages_file, requests, message_id, status_code,
                   extracted_text, saved_messages, replies, status, entry,
                   signature, outcome>>

\* Variant: a failure of the reply is swallowed.
reply_message_ignore_failure(t, text, next, handler) ==
    \E ok \in BOOLEAN :
        /\ Log(t, "reply", ok)
        /\ replies' = [replies EXCEPT ![t] = Append(@, Reply(text, ok))]
        /\ Goto(t, next)

\* A call of reply_message with `text`; on success go to `next`, on a
\* failure the exception goes to `handler`.
reply_message(t, text, next, handler) ==
    \E ok \in BOOLEAN :
        /\ Log(t, "reply", ok)
        /\ replies' = [replies EXCEPT ![t] = Append(@, Reply(text, ok))]
        /\ Goto(t, IF ok THEN next ELSE handler)

\* Lines 209-219: the success reply, inside the try of the append.
reply_success(t) ==
    /\ pc[t] = "reply_success"
    /\ reply_message(t, SUCCESS_TEXT, "save_load", "except")
    /\ UNCHANGED <<saved_messages_file, sheet, requests, message_id, status_code,
                   extracted_text, values, saved_messages, status, entry,
                   signature, outcome>>

\* Lines 220-229: the reply when no text was extracted.
reply_failed(t) ==
    /\ pc[t] = "reply_failed"
    /\ reply_message(t, EXTRACTION_FAILED_TEXT, "save_load", "except")
    /\ UNCHANGED <<saved_messages_file, sheet, requests, message_id, status_code,
                   extracted_text, values, saved_messages, status, entry,
                   signature, outcome>>

\* Variant: no membership test, the id is always appended.
save_load_no_membership_test(t) ==
    /\ pc[t] = "save_load"
    /\ saved_messages' = [saved_messages EXCEPT ![t] = load_saved_messages.value]
    /\ Goto(t, "save_write")
    /\ UNCHANGED <<saved_messages_file, sheet, requests, message_id, status_code,
                   extracted_text, values, replies, trace, status, entry,
                   signature, outcome>>

\* Lines 133-134: save_message_id loads the list and tests membership.
save_load(t) ==
    /\ pc[t] = "save_load"
    /\ LET loaded == load_saved_messages
       IN  IF loaded.raised
           THEN /\ UNCHANGED <<saved_messages, trace>>
                /\ IF entry[t] = "callback"
                   THEN Goto(t, "except") /\ UNCHANGED status
                   ELSE Escape(t)
           ELSE /\ saved_messages' = [saved_messages EXCEPT ![t] = loaded.value]
                /\ IF message_id[t] \notin Range(loaded.value)
                   THEN /\ Goto(t, "save_write")
                        /\ UNCHANGED <<trace, status>>
                   ELSE /\ UNCHANGED trace
                        /\ IF entry[t] = "callback"
                           THEN Return(t)
                           ELSE Goto(t, "done") /\ UNCHANGED status
    /\ UNCHANGED <<saved_messages_file, sheet, requests, message_id, status_code,
                   extracted_text, values, replies, entry,
                   signature, outcome>>

\* Lines 135-137: append the id and write the whole list; the write may fail.
save_write(t) ==
    /\ pc[t] = "save_write"
    /\ \/ /\ Log(t, "write", TRUE)
          /\ saved_messages' = [saved_messages EXCEPT ![t] = Append(@, message_id[t])]
          /\ saved_messages_file' =
                 [exists |-> TRUE, data |-> Append(saved_messages[t], message_id[t])]
          /\ IF entry[t] = "callback"
             THEN Return(t)
             ELSE Goto(t, "done") /\ UNCHANGED status
       \/ /\ Log(t, "write", FALSE)
          /\ UNCHANGED <<saved_messages, saved_messages_file>>
          /\ IF entry[t] = "callback"
             THEN Goto(t, "except") /\ UNCHANGED status
             ELSE Escape(t)
    /\ UNCHANGED <<sheet, requests, message_id, status_code, extracted_text, values,
                   replies, entry,
                   signature, outcome>>

\* Variant: the outer except also records the message id.
reply_error_and_record(t) ==
    /\ pc[t] = "except"
    /\ saved_messages_file' =
          [exists |-> TRUE,
           data |-> IF has(message_id[t])
                    THEN load_saved_messages.value
                    ELSE Append(load_saved_messages.value, message_id[t])]
    /\ \E ok \in BOOLEAN :
          /\ Log(t, "reply", ok)
          /\ replies' = [replies EXCEPT ![t] = Append(@, Reply(ERROR_TEXT, ok))]
          /\ IF ok THEN Return(t) ELSE Escape(t)
    /\ UNCHANGED <<sheet, requests, message_id, status_code, extracted_text,
                   values, saved_messages, entry, signature, outcome>>

\* Lines 238-247: the outer except sends the generic error reply; if that
\* call raises too, the exception leaves the handler.
reply_error(t) ==
    /\ pc[t] = "except"
    /\ \E ok \in BOOLEAN :
          /\ Log(t, "reply", ok)
          /\ replies' = [replies EXCEPT ![t] = Append(@, Reply(ERROR_TEXT, ok))]
          /\ IF ok THEN Return(t) ELSE Escape(t)
    /\ UNCHANGED <<saved_messages_file, sheet, requests, message_id, status_code,
                   extracted_text, values, saved_messages, entry,
                   signature, outcome>>

\* How the event of thread t ended: the media fetch failed, the append to
\* the sheet failed, or anything else.
EventOutcome(t) ==
    IF \E i \in DOMAIN trace[t] : trace[t][i] = Call("fetch", FALSE)
    THEN "fetch_failed"
    ELSE IF \E i \in DOMAIN trace[t] : trace[t][i] = Call("append", FALSE)
         THEN "sink_failed"
         ELSE "other"

\* Line 159 (or abort): the response is sent and the thread is free again.
respond(t) ==
    /\ pc[t] = "done"
    /\ Goto(t, "idle")
    /\ message_id' = [message_id EXCEPT ![t] = "m1"]
    /\ status_code' = [status_code EXCEPT ![t] = 0]
    /\ extracted_text' = [extracted_text EXCEPT ![t] = None]
    /\ values' = [values EXCEPT ![t] = <<>>]
    /\ saved_messages' = [saved_messages EXCEPT ![t] = <<>>]
    /\ trace' = [trace EXCEPT ![t] = <<>>]
    /\ replies' = [replies EXCEPT ![t] = <<>>]
    /\ status' = [status EXCEPT ![t] = 0]
    /\ entry' = [entry EXCEPT ![t] = "callback"]
    /\ signature' = [signature EXCEPT ![t] = "none"]
    /\ outcome' = IF entry[t] = "callback" /\ status[t] # HTTP_BAD_REQUEST
                  THEN [outcome EXCEPT ![message_id[t]] = EventOutcome(t)]
                  ELSE outcome
    /\ UNCHANGED <<saved_messages_file, sheet, requests>>

\* A direct call of save_message_id(id), outside any handler.
save_message_id(t, id) ==
    /\ Idle(t)
    /\ Enter(t, "save_message_id", id)
    /\ Goto(t, "save_load")
    /\ status' = [status EXCEPT ![t] = 0]
    /\ UNCHANGED <<saved_messages_file, sheet, signature, outcome>>

handle_image_message(t) ==
    \/ check_saved(t)
    \/ download_image(t)
    \/ extract_text_from_image(t)
    \/ append_to_sheet(t)
    \/ reply_success(t)
    \/ reply_failed(t)
    \/ save_load(t)
    \/ save_write(t)
    \/ reply_error(t)

\* The server handles one request at a time.
Next ==
    /\ \E t \in Threads :
          \/ /\ Sequential
             /\ \E sig \in Signatures, id \in MessageIds :
                    callback(t, sig, id)
          \/ handle_image_message(t)
          \/ respond(t)
    /\ UNCHANGED <<parser, script>>

Spec == Init /\ [][Next]_vars

\* The development server of app.run is threaded: requests may overlap.
NextConcurrent ==
    /\ \E t \in Threads :
          \/ /\ requests < MaxConcurrentRequests
             /\ \E sig \in Signatures, id \in MessageIds : callback(t, sig, id)
          \/ handle_image_message(t)
          \/ respond(t)
    /\ UNCHANGED <<parser, script>>

SpecConcurrent == Init /\ [][NextConcurrent]_vars

\* The ledger as a component: save_message_id is also called directly.
NextLedger ==
    \/ Next
    \/ /\ Sequential
       /\ \E t \in Threads, id \in MessageIds : save_message_id(t, id)
       /\ UNCHANGED <<parser, script>>

SpecLedger == Init /\ [][NextLedger]_vars

\* ------------------------------------------------------------ the parser
server_vars == <<saved_messages_file, sheet, requests, pc, message_id,
                 status_code, extracted_text, values, saved_messages, trace,
                 replies, status, entry, signature, outcome>>

\* delim.join(row)
RECURSIVE join(_, _)
join(row, delim) ==
    IF row = <<>> THEN <<>>
    ELSE IF Len(row) = 1 THEN row[1]
    ELSE row[1] \o <<delim>> \o join(Tail(row), delim)

\* A call convert_to_table(text).
parse ==
    /\ parser.pc = "start"
    /\ parser' = [parser EXCEPT !.pc = "parsed",
                                !.table = convert_to_table(parser.text)]
    /\ UNCHANGED <<server_vars, script>>

\* One produced row is joined with a single delimiter and parsed again.
reparse(i, delim) ==
    /\ parser.pc = "parsed"
    /\ i \in DOMAIN parser.table
    /\ LET line == join(parser.table[i], delim)
       IN  parser' = [parser EXCEPT !.pc = "reparsed",
                                   !.row = parser.table[i],
                                   !.joined = line,
                                   !.reparsed = convert_to_table(line)]
    /\ UNCHANGED <<server_vars, script>>

\* convert_to_table is called with any text of at most MaxTextLen characters.
InitParser ==
    /\ InitServer
    /\ parser \in {[ParserIdle EXCEPT !.pc = "start", !.text = x] :
                      x \in Texts(MaxTextLen)}
    /\ script = ScriptIdle

NextParser ==
    \/ parse
    \/ \E i \in 1..MaxTextLen, delim \in {",", TAB} : reparse(i, delim)

SpecParser == InitParser /\ [][NextParser]_vars

\* ------------------------------------------------------ image_to_text.py
\* The text returned when extraction raises: the fixed message and str(e).
ScriptErrorText == <<"e", "r", "r", "o", "r", ":", " ", "x">>

IMAGE_PATH == "sample.png"

script_rest == <<saved_messages_file, requests, pc, message_id, status_code,
                 extracted_text, values, saved_messages, trace, replies,
                 status, entry, signature, outcome, parser>>

\* Lines 85-108 and 113: extract_text_from_image(image_path) returns the
\* model's text, or the error message when anything raises.
script_extract ==
    /\ script.pc = "start"
    /\ \/ \E text \in Texts(MaxTextLen) :
             script' = [script EXCEPT !.pc = "extracted",
                                      !.raised = FALSE,
                                      !.extracted_text = text]
       \/ script' = [script EXCEPT !.pc = "extracted",
                                   !.raised = TRUE,
                                   !.extracted_text = ScriptErrorText]
    /\ UNCHANGED <<script_rest, sheet>>

\* Lines 118-131: the text is converted and the values are built.
script_convert ==
    /\ script.pc = "extracted"
    /\ LET table == convert_to_table(script.extracted_text)
       IN  script' = [script EXCEPT
                        !.pc = "converted",
                        !.table = table,
                        !.values = <<(<<requests, <<IMAGE_PATH>>>>)>> \o table]
    /\ UNCHANGED <<script_rest, sheet>>

\* Lines 133-137: the values are appended; a failure is printed.
script_append ==
    /\ script.pc = "converted"
    /\ \/ /\ sheet' = Append(sheet, script.values)
          /\ script' = [script EXCEPT !.pc = "done", !.appended = TRUE]
       \/ /\ sheet' = sheet
          /\ script' = [script EXCEPT !.pc = "done"]
    /\ UNCHANGED script_rest

\* python image_to_text.py
InitScript ==
    /\ InitServer
    /\ parser = ParserIdle
    /\ script = [ScriptIdle EXCEPT !.pc = "start"]

NextScript == script_extract \/ script_convert \/ script_append

SpecScript == InitScript /\ [][NextScript]_vars

\* ----------------------------------------------------------------- claims
\* The handler of thread t has finished the event of its request.
Handled(t) ==
    /\ pc[t] = "done"
    /\ entry[t] = "callback"
    /\ status[t] \in {HTTP_OK, HTTP_SERVER_ERROR}

\* Number of calls of `op` in the event of thread t.
Calls(t, op) == Cardinality({i \in DOMAIN trace[t] : trace[t][i].op = op})

Called(t, op, ok) == \E i \in DOMAIN trace[t] : trace[t][i] = Call(op, ok)

\* Appends in the sheet that carry the metadata row of message `id`.
AppendsOf(id) ==
    {i \in DOMAIN sheet : sheet[i][1][2] = <<"LINE Message ID: ", id>>}

\* Appends in the sheet made at time `now`.
AppendsAt(now) == {i \in DOMAIN sheet : sheet[i][1][1] = now}

\* The rows of the two texts, written out.
RowsOf(text) ==
    IF text = <<" ">> THEN <<>>
    ELSE << <<(<<"a">>), (<<"b">>)>>, <<(<<"c">>), (<<"D">>)>> >>

\* C1: a handler invoked for a message id that is already in the ledger
\* returns at the dedupe check: no fetch, no extraction, no append, no
\* reply, and the ledger file is left as it was.
C1_DedupeShortCircuit ==
    [][\A t \in Threads :
          (pc[t] = "check" /\ has(message_id[t]) /\ pc'[t] # "check")
          => /\ pc'[t] = "done"
             /\ status'[t] = HTTP_OK
             /\ trace'[t] = <<>>
             /\ replies'[t] = <<>>
             /\ sheet' = sheet
             /\ saved_messages_file' = saved_messages_file]_vars

C1_Witness ==
    \E t \in Threads :
        /\ Handled(t)
        /\ has(message_id[t])
        /\ trace[t] = <<>>
        /\ AppendsOf(message_id[t]) # {}

\* Every call of the event succeeded and text was extracted.
HappyPath(t) ==
    /\ Handled(t)
    /\ trace[t] # <<>>
    /\ \A i \in DOMAIN trace[t] : trace[t][i].ok
    /\ Truthy(extracted_text[t])

\* C2: first delivery with every collaborator succeeding and text
\* extracted: exactly one append, made of the metadata row (time, message
\* id) followed by the parsed rows in order; exactly one reply, the success
\* text; the id is in the ledger.
C2_HappyPath ==
    \A t \in Threads :
        HappyPath(t)
        => /\ Calls(t, "append") = 1
           /\ Cardinality(AppendsAt(requests)) = 1
           /\ sheet[Len(sheet)] = values[t]
           /\ Head(values[t]) = <<requests, <<"LINE Message ID: ", message_id[t]>>>>
           /\ Tail(values[t]) = RowsOf(extracted_text[t].text)
           /\ replies[t] = <<Reply(SUCCESS_TEXT, TRUE)>>
           /\ has(message_id[t])
           /\ status[t] = HTTP_OK

C2_Witness ==
    \E t \in Threads :
        /\ HappyPath(t)
        /\ Len(values[t]) = 3
        /\ Called(t, "write", TRUE)

\* C3: every handled event that is not short-circuited calls the reply
\* collaborator exactly once, whichever step fails.
C3_ExactlyOneReply ==
    \A t \in Threads :
        (Handled(t) /\ trace[t] # <<>>) => Len(replies[t]) = 1

\* C4: when text was extracted and the append to the sheet fails, the
\* event ends with exactly one reply, the generic error text, and the id is
\* not in the ledger.
C4_SinkFailure ==
    \A t \in Threads :
        (Handled(t) /\ Called(t, "append", FALSE))
        => /\ Len(replies[t]) = 1
           /\ replies[t][1].text = ERROR_TEXT
           /\ ~has(message_id[t])
           /\ ~Called(t, "write", TRUE)
           /\ AppendsAt(requests) = {}

C4_Witness ==
    \E t \in Threads :
        /\ Handled(t)
        /\ Truthy(extracted_text[t])
        /\ Called(t, "append", FALSE)
        /\ replies[t] = <<Reply(ERROR_TEXT, TRUE)>>

\* C5: when extraction gives no text (None or ""), the event ends with
\* exactly one reply, the 'extraction failed' text, the sheet is never
\* called, and the id is in the ledger.
C5_NoText ==
    \A t \in Threads :
        (Handled(t) /\ Calls(t, "extract") = 1 /\ ~Truthy(extracted_text[t]))
        => /\ Calls(t, "append") = 0
           /\ Len(replies[t]) = 1
           /\ replies[t][1].text = EXTRACTION_FAILED_TEXT
           /\ has(message_id[t])

\* C6: when the media endpoint answers with a non-success status, the event
\* makes no extraction and no append, sends the generic error reply, and
\* the id is not in the ledger.
C6_TransportFailure ==
    \A t \in Threads :
        (Handled(t) /\ status_code[t] \notin {0, HTTP_OK})
        => /\ Calls(t, "extract") = 0
           /\ Calls(t, "append") = 0
           /\ AppendsAt(requests) = {}
           /\ Len(replies[t]) = 1
           /\ replies[t][1].text = ERROR_TEXT
           /\ ~has(message_id[t])
           /\ ~Called(t, "write", TRUE)

C6_Witness ==
    \E t \in Threads :
        /\ Handled(t)
        /\ status_code[t] = 404
        /\ replies[t] = <<Reply(ERROR_TEXT, TRUE)>>

\* C7: over sequential deliveries with redeliveries and failing
\* collaborators, the sheet holds at most one append per message id.
C7_AtMostOneAppend ==
    \A id \in MessageIds : Cardinality(AppendsOf(id)) <= 1

\* Position of the first call of `op` in the event of thread t.
Pos(t, op) == CHOOSE i \in DOMAIN trace[t] : trace[t][i].op = op

StoreEmpty == ~saved_messages_file.exists \/ saved_messages_file.data = <<>>

\* The step of thread t is a successful write of the ledger file.
Wrote(t) ==
    /\ pc[t] = "save_write"
    /\ Len(trace'[t]) = Len(trace[t]) + 1
    /\ trace'[t][Len(trace'[t])] = Call("write", TRUE)

\* C9: on a missing or empty ledger file the membership test is false for
\* every id and raises nothing (the handler goes on to the fetch,
\* save_message_id goes on to the write); after a successful
\* save_message_id(id) the id is in the ledger; save_message_id(id) for an
\* id already in the ledger leaves the file as it is.
C9_LedgerHasRecord ==
    /\ [](StoreEmpty => \A id \in MessageIds : ~has(id))
    /\ [][\A t \in Threads :
             (pc[t] = "check" /\ StoreEmpty /\ pc'[t] # "check")
             => pc'[t] = "fetch"]_vars
    /\ [][\A t \in Threads :
             (pc[t] = "save_load" /\ StoreEmpty /\ pc'[t] # "save_load")
             => pc'[t] = "save_write"]_vars
    /\ [][\A t \in Threads :
             Wrote(t)
             => /\ saved_messages_file'.exists
                /\ message_id[t] \in Range(saved_messages_file'.data)]_vars
    /\ [][\A t \in Threads :
             (pc[t] = "save_load" /\ has(message_id[t]) /\ pc'[t] # "save_load")
             => /\ pc'[t] = "done"
                /\ saved_messages_file' = saved_messages_file]_vars

\* A second save_message_id(id) has returned without a write.
C9_Witness ==
    \E t \in Threads :
        /\ pc[t] = "done"
        /\ entry[t] = "save_message_id"
        /\ trace[t] = <<>>
        /\ has(message_id[t])

NoDuplicates(s) == \A i, j \in DOMAIN s : s[i] = s[j] => i = j

\* C10: the ledger list never holds an id twice, and it changes only by
\* appending an absent id at the end: no entry is removed or changed.
C10_LedgerInvariant ==
    /\ [](NoDuplicates(saved_messages_file.data))
    /\ [][\/ saved_messages_file'.data = saved_messages_file.data
          \/ \E id \in MessageIds :
                /\ id \notin Range(saved_messages_file.data)
                /\ saved_messages_file'.data =
                       Append(saved_messages_file.data, id)]_vars

\* Both ids are recorded and a further save_message_id has returned.
C10_Witness ==
    /\ Len(saved_messages_file.data) = 2
    /\ \E t \in Threads :
          /\ pc[t] = "done"
          /\ entry[t] = "save_message_id"
          /\ trace[t] = <<>>

\* Characters that are neither white space nor a delimiter.
IsLetter(c) == c \notin Whitespace \cup {","}

Letters(text) == SelectSeq(text, IsLetter)

RECURSIVE Flatten(_)
Flatten(seqs) == IF seqs = <<>> THEN <<>> ELSE Head(seqs) \o Flatten(Tail(seqs))

\* The line of position i: the number of line breaks before it.
LineOf(text, i) == Cardinality({j \in 1..(i - 1) : text[j] = NL})

\* The field of position i: its line and the number of delimiters between
\* the start of that line and i.
FieldOf(text, i) ==
    <<LineOf(text, i),
      Cardinality({j \in 1..(i - 1) :
                      /\ text[j] \in {",", TAB}
                      /\ LineOf(text, j) = LineOf(text, i)})>>

LetterPositions(text) == {i \in DOMAIN text : IsLetter(text[i])}
ContentLines(text) == {LineOf(text, i) : i \in LetterPositions(text)}
ContentFields(text) == {FieldOf(text, i) : i \in LetterPositions(text)}

\* The k-th line that has a non-empty field.
ContentLine(text, k) ==
    CHOOSE l \in ContentLines(text) :
        Cardinality({m \in ContentLines(text) : m < l}) = k - 1

\* C11: for every text, every row of convert_to_table has at least one
\* field, every field is non-empty, holds no delimiter or line break and
\* has no white space at either end; there is one row per line that has a
\* non-empty field and none for the other lines; the rows follow the order
\* of the lines and the fields the order within the line.
C11_ParserShape ==
    parser.pc \in {"parsed", "reparsed"}
    => LET text == parser.text
           table == parser.table
       IN  /\ \A k \in DOMAIN table :
                 /\ table[k] # <<>>
                 /\ \A n \in DOMAIN table[k] :
                       LET field == table[k][n]
                       IN  /\ field # <<>>
                           /\ ~IsSpace(field[1])
                           /\ ~IsSpace(field[Len(field)])
                           /\ \A c \in Range(field) : c \notin {",", TAB, NL}
                 /\ Len(table[k]) =
                       Cardinality({f \in ContentFields(text) :
                                       f[1] = ContentLine(text, k)})
           /\ Len(table) = Cardinality(ContentLines(text))
           /\ Letters(Flatten(Flatten(table))) = Letters(text)

\* A delimiter-only line before a line with a field gave no row.
C11_Witness ==
    /\ parser.pc = "parsed"
    /\ Len(parser.table) = 1
    /\ \E i, j \in DOMAIN parser.text :
          /\ j < i
          /\ parser.text[j] = ","
          /\ parser.text[i] = NL
          /\ LineOf(parser.text, j) = 1

\* C12: a row produced by convert_to_table, joined with a single comma or
\* a single tab and parsed again, gives exactly that one row.
C12_ParserRoundTrip ==
    parser.pc = "reparsed" => parser.reparsed = <<parser.row>>

C12_Witness ==
    /\ parser.pc = "reparsed"
    /\ Len(parser.row) = 2
    /\ \E i \in DOMAIN parser.joined : parser.joined[i] = TAB
    /\ \E i \in DOMAIN parser.text : parser.text[i] = ","

\* The exception of the failed error reply left handle_image_message.
Escaped(t) ==
    /\ replies[t] # <<>>
    /\ replies[t][Len(replies[t])] = Reply(ERROR_TEXT, FALSE)

\* C13: a request with a missing or invalid signature is answered 400 and
\* nothing of it is processed (no fetch, append, reply or ledger write); a
\* failure that leaves the event dispatch is answered 500; every other
\* request is answered 200.
C13_WebhookOutcome ==
    /\ [](\A t \in Threads :
             (pc[t] = "done" /\ entry[t] = "callback")
             => /\ status[t] = IF signature[t] \in {"missing", "invalid"}
                               THEN HTTP_BAD_REQUEST
                               ELSE IF Escaped(t) THEN HTTP_SERVER_ERROR
                                    ELSE HTTP_OK
                /\ signature[t] \in {"missing", "invalid"}
                      => trace[t] = <<>> /\ replies[t] = <<>>)
    /\ [][\A t \in Threads :
             (pc[t] = "idle" /\ signature'[t] \in {"missing", "invalid"})
             => /\ pc'[t] = "done"
                /\ sheet' = sheet
                /\ saved_messages_file' = saved_messages_file]_vars

\* A rejected request, after an event that was processed in full.
C13_Witness ==
    \E t \in Threads :
        /\ pc[t] = "done"
        /\ signature[t] = "invalid"
        /\ status[t] = HTTP_BAD_REQUEST
        /\ sheet # <<>>

\* Threads t and u handle the same message id at the same time, and each
\* has appended its rows to the sheet.
BothAppended(t, u) ==
    /\ t # u
    /\ entry[t] = "callback" /\ entry[u] = "callback"
    /\ message_id[t] = message_id[u]
    /\ Called(t, "append", TRUE)
    /\ Called(u, "append", TRUE)

\* C14: overlapping handlers of one message id are not kept apart after
\* the dedupe check: every successful append adds its rows to the sheet,
\* also when the id is in the ledger by then, so two handlers that both
\* appended leave two appends of that id in the sheet.
C14_ConcurrentRace ==
    /\ [](\A t, u \in Threads :
             BothAppended(t, u)
             => Cardinality(AppendsOf(message_id[t])) >= 2)
    /\ [][\A t \in Threads :
             (pc[t] = "append" /\ pc'[t] = "reply_success")
             => sheet' = Append(sheet, values'[t])]_vars

\* Two deliveries of one id, no call failed: both handlers passed the
\* dedupe check before either recorded, both appended, both wrote the
\* ledger, and the sheet holds the id twice.
C14_Witness ==
    \E t, u \in Threads :
        /\ BothAppended(t, u)
        /\ requests = 2
        /\ pc[t] = "done" /\ pc[u] = "done"
        /\ \A i \in DOMAIN trace[t] : trace[t][i].ok
        /\ \A i \in DOMAIN trace[u] : trace[u][i].ok
        /\ Called(t, "write", TRUE)
        /\ Called(u, "write", TRUE)
        /\ Cardinality(AppendsOf(message_id[t])) = 2
        /\ saved_messages_file.data = <<message_id[t]>>

\* The last handled event of message `id` ended with a failed media fetch
\* or a failed append to the sheet.
FailedBefore(id) == outcome[id] \in {"fetch_failed", "sink_failed"}

\* C15: after an event of message m that ended with a failed media fetch
\* or a failed append, the next delivery of m finds m absent from the
\* ledger, passes the dedupe check and runs the pipeline again: it fetches
\* the image and, when the fetch succeeds, invokes the extraction.
C15_RedeliveryReprocesses ==
    /\ [][\A t \in Threads :
             (pc[t] = "check" /\ FailedBefore(message_id[t]) /\ pc'[t] # "check")
             => /\ ~has(message_id[t])
                /\ pc'[t] = "fetch"]_vars
    /\ [](\A t \in Threads :
             (Handled(t) /\ FailedBefore(message_id[t]))
             => /\ Calls(t, "fetch") = 1
                /\ Called(t, "fetch", TRUE) => Calls(t, "extract") = 1)

\* A redelivery after a failed append was processed up to its own append.
C15_Witness ==
    \E t \in Threads :
        /\ Handled(t)
        /\ outcome[message_id[t]] = "sink_failed"
        /\ Calls(t, "fetch") = 1
        /\ Calls(t, "extract") = 1
        /\ Called(t, "append", TRUE)

\* Extraction gave thread t a non-empty text without any field: only
\* white space and delimiters.
Unparseable(t) ==
    /\ ~extracted_text[t].none
    /\ extracted_text[t].text # <<>>
    /\ Letters(extracted_text[t].text) = <<>>

\* C16: a non-empty extracted text that parses to zero rows takes the
\* success branch: the handler goes on to the append, the appended values
\* are the metadata row alone, the 'extraction failed' reply is never sent,
\* and when append, reply and ledger write succeed the sheet holds the
\* metadata row alone, the success reply was sent and the id is recorded.
C16_UnparseableText ==
    /\ [][\A t \in Threads :
             (pc[t] = "extract" /\ pc'[t] # "extract"
                /\ ~extracted_text'[t].none
                /\ extracted_text'[t].text # <<>>)
             => pc'[t] = "append"]_vars
    /\ [](\A t \in Threads :
             (Unparseable(t) /\ pc[t] # "append")
             => /\ Calls(t, "append") = 1
                /\ values[t] = <<metadata_row(requests, message_id[t])>>
                /\ \A i \in DOMAIN replies[t] :
                      replies[t][i].text # EXTRACTION_FAILED_TEXT)
    /\ [](\A t \in Threads :
             (Unparseable(t) /\ Handled(t)
                /\ \A i \in DOMAIN trace[t] : trace[t][i].ok)
             => /\ sheet[Len(sheet)] = <<metadata_row(requests, message_id[t])>>
                /\ replies[t] = <<Reply(SUCCESS_TEXT, TRUE)>>
                /\ has(message_id[t]))

C16_Witness ==
    \E t \in Threads :
        /\ Unparseable(t)
        /\ Handled(t)
        /\ sheet # <<>>
        /\ sheet[Len(sheet)] = <<metadata_row(requests, message_id[t])>>
        /\ replies[t] = <<Reply(SUCCESS_TEXT, TRUE)>>
        /\ Called(t, "write", TRUE)

\* C17: in both pipelines a failure inside the extraction gives no text:
\* in the handler of app.py no rows are built and nothing is appended after
\* a failed extraction, and in image_to_text.py no rows are parsed from it
\* and nothing of it is appended to the sheet.
C17_FailureGivesNoRows ==
    /\ \A t \in Threads :
          Called(t, "extract", FALSE)
          => /\ extracted_text[t].none
             /\ values[t] = <<>>
             /\ Calls(t, "append") = 0
    /\ script.raised
          => /\ script.table = <<>>
             /\ ~script.appended

\* C18: the ledger changes only when a handler writes its own message id,
\* and at that write the event has made exactly one reply, delivered
\* without failure, with the success or the 'extraction failed' text; when
\* it is the success text, a successful append came before it.  An event
\* that sent the generic error reply has not recorded its id.
C18_LedgerImpliesProcessed ==
    /\ [][saved_messages_file' # saved_messages_file
             => \E t \in Threads :
                   /\ Wrote(t)
                   /\ entry[t] = "callback"
                   /\ saved_messages_file'.data =
                          Append(saved_messages_file.data, message_id[t])
                   /\ replies[t] \in {<<Reply(SUCCESS_TEXT, TRUE)>>,
                                      <<Reply(EXTRACTION_FAILED_TEXT, TRUE)>>}
                   /\ replies[t][1].text = SUCCESS_TEXT
                         => \E i, j \in DOMAIN trace[t] :
                               /\ i < j
                               /\ trace[t][i] = Call("append", TRUE)
                               /\ trace[t][j] = Call("reply", TRUE)]_vars
    /\ [](\A t \in Threads :
             (Handled(t) /\ \E i \in DOMAIN replies[t] :
                                replies[t][i].text = ERROR_TEXT)
             => /\ ~Called(t, "write", TRUE)
                /\ ~has(message_id[t]))

\* Both ids are recorded, the last one by an event without text.
C18_Witness ==
    \E t \in Threads :
        /\ Handled(t)
        /\ Called(t, "write", TRUE)
        /\ replies[t] = <<Reply(EXTRACTION_FAILED_TEXT, TRUE)>>
        /\ Len(saved_messages_file.data) = 2
        /\ sheet # <<>>

====
